---- MODULE Spec2Model ----
(***************************************************************************)
(* Assessment unlock gating of app/routes/integrated_assessment.py:        *)
(* AssessmentUnlockManager, store_assessment and submit_assessment, over   *)
(* the two stores they share: users.road_map (the Curriculum Document, one *)
(* JSON document per learner) and learning_progress (one Progress Record   *)
(* per (learner, phase)).  One learner is modelled.                        *)
(*                                                                         *)
(* Python lists of day numbers are kept as multisets (day -> number of     *)
(* occurrences): the code only reads them through `in`, len(), set(),      *)
(* max() and sorted(), so the order of a list is never observed, while a   *)
(* duplicate entry is.                                                     *)
(*                                                                         *)
(* The manager reads roadmap['phases'] with .get(phase_id), so the phases  *)
(* are a mapping keyed by the phase id the callers pass; the tasks of a    *)
(* phase carry continuous day numbers 1..MaxDay, one task per day.         *)
(*                                                                         *)
(* SpecLongPhase runs the same requests on a phase of LastDay days, past   *)
(* the day limit of the unlock evaluation; SpecFaulty adds the failures    *)
(* the handlers catch.  SpecAnalysis is the progress analysis of           *)
(* app/routes/roadmap.py (AdaptiveRoadmapManager) over the completed flags *)
(* of the tasks of one phase.  SpecAdaptive and SpecLongPlan run the whole  *)
(* analyze_progress_and_adapt (progress, delays, adaptations, apply, save) *)
(* on a roadmap of two short plans and of one long plan; in                *)
(* SpecAdaptConcurrent it runs among submissions and task completions,     *)
(* every request reading and writing users.road_map as a whole.            *)
(***************************************************************************)
EXTENDS Integers, FiniteSets, TLC

\* ---------------------------------------------------------------- bounds
\* MaxDay: tasks (days) of a phase.  SeqMaxDay: the days the requests served
\* one after the other submit and store for.  NPhases: phases of the road map.
\* MaxAttempts: attempts recorded on one assessment before the model stops
\* adding to it.  LastDay: days of the long phase.  MaxTasks: tasks of the
\* analysed learning plan.  MaxElapsed: days since the plan was generated.
\* PlanTasks: tasks of each learning plan of the adapted roadmap.
\* MaxAdaptations: runs of the adaptive analysis on one roadmap.
\* LongPlanTasks: tasks of the learning plan of the one-phase roadmap.
MaxDay == 3
SeqMaxDay == 2
NPhases == 2
MaxAttempts == 2
LastDay == 31
MaxTasks == 4
MaxElapsed == 6
PlanTasks == 2
MaxAdaptations == 2
LongPlanTasks == 9

\* ------------------------------------------------------ program constants
\* PassScore: final_score >= 70.  EvalDayLimit: next_day <= 30 in
\* _evaluate_unlock_conditions (reset_unlock_status of the class has no limit).
\* ResetDayLimit: next_day <= 50 in the module-level reset_unlock_status, which
\* no caller reaches.
PassScore == 70
EvalDayLimit == 30
ResetDayLimit == 50

Phases == 1..NPhases
Days == 1..MaxDay
SeqDays == 1..SeqMaxDay
Procs == {"a", "b"}

\* ------------------------------------------------- lists of day numbers
\* A list of day numbers is kept as the number of times each day occurs in it
\* (the code never reads the order, it does read duplicates through len()).
EmptyList == [d \in {} |-> 0]
Count(list, d) == IF d \in DOMAIN list THEN list[d] ELSE 0
In(d, list) == d \in DOMAIN list
ListLen(list) ==
  Cardinality(UNION {{<<d, i>> : i \in 1..list[d]} : d \in DOMAIN list})
ToSet(list) == DOMAIN list
ListAppend(list, d) ==
  [x \in DOMAIN list \cup {d} |-> Count(list, x) + (IF x = d THEN 1 ELSE 0)]
ListOfSet(S) == [d \in S |-> 1]
AddToSet(list, d) == IF In(d, list) THEN list ELSE ListAppend(list, d)
SetMax(S) == CHOOSE m \in S : \A x \in S : x <= m
SetMin(S) == CHOOSE m \in S : \A x \in S : m <= x

\* --------------------------------------------------- Curriculum Document
NoAssessment == [present |-> FALSE, completed |-> FALSE, score |-> 0, attempts |-> 0]
EmptyRoadmap == [p \in Phases |-> [d \in Days |-> NoAssessment]]

\* ------------------------------------------------------- Progress Record
\* A field that the stored document lacks reads through .get(field, default);
\* unlock_trigger "unset" stands for the missing field.
NoRecord ==
  [exists |-> FALSE, unlocked_days |-> EmptyList,
   completed_assessments |-> EmptyList, unlock_trigger |-> "unset"]
NoProgress == [p \in Phases |-> NoRecord]

\* ------------------------------------------------------------ evaluators
\* strict_theory_evaluation: answers by stripped length, good (> 10), basic
\* (> 3), minimal (> 0), blank (unanswered).
TheoryScore(a) ==
  LET raw == 25 * a.good + 15 * a.basic + 5 * a.minimal - 20 * a.blank
      capped == IF raw > 100 THEN 100 ELSE raw
  IN  IF capped < 0 THEN 0 ELSE capped

\* strict_coding_evaluation: github url, description length class
\* (2: > 50 characters, 1: > 20, 0: less), documentation and testing keywords.
CodingScore(a) ==
  (IF a.url THEN 30 ELSE 0)
  + (IF a.desc = 2 THEN 40 ELSE IF a.desc = 1 THEN 20 ELSE 0)
  + (IF a.desc > 0 /\ a.doc THEN 15 ELSE 0)
  + (IF a.desc > 0 /\ a.test THEN 15 ELSE 0)

TheoryAnswers ==
  { [good |-> 2, basic |-> 1, minimal |-> 1, blank |-> 0],
    [good |-> 2, basic |-> 1, minimal |-> 0, blank |-> 0] }
CodingAnswers ==
  { [url |-> TRUE, desc |-> 2, doc |-> FALSE, test |-> FALSE],
    [url |-> TRUE, desc |-> 1, doc |-> TRUE, test |-> FALSE] }
Submissions ==
  [type : {"theory"}, answers : TheoryAnswers]
  \cup [type : {"coding"}, answers : CodingAnswers]

Evaluate(sub) ==
  IF sub.type = "coding" THEN CodingScore(sub.answers) ELSE TheoryScore(sub.answers)

Passed(score) == score >= PassScore

\* Answers that are not a JSON object (a non-empty array passes the required
\* fields test of submit_assessment): .items() and .get() raise on them.
MalformedAnswers == {[list |-> TRUE]}
MalformedSubmissions == [type : {"theory", "coding"}, answers : MalformedAnswers]
IsMapping(a) == "list" \notin DOMAIN a

\* What the evaluators return: their except branch turns any exception into
\* score 0 with status "ERROR".
EvaluationResult(sub) ==
  IF ~IsMapping(sub.answers)
  THEN [score |-> 0, status |-> "ERROR"]
  ELSE [score |-> Evaluate(sub),
        status |-> IF Evaluate(sub) >= 70 THEN "PASSED" ELSE "FAILED - RETAKE REQUIRED"]

\* Scores a client posts to store_assessment in assessment_result.
StoreScores == {Evaluate(s) : s \in Submissions}

\* ------------------------------------------------------- results returned
NoResult ==
  [op |-> "none", phase |-> 0, day |-> 0, status |-> "none", path |-> "none",
   unlocked_days |-> EmptyList, completed_assessments |-> EmptyList,
   current_day |-> 0, unlock_trigger |-> "none",
   passed |-> FALSE, score |-> 0, attempts |-> 0,
   unlock_status |-> "none", unlocked_day |-> 0, evaluation |-> "none"]

\* ------------------------------------------------ AssessmentUnlockManager
\* Variant of UpdateProgress with a slip: only unlock_trigger is written.
UpdateProgress_TriggerOnly(rec, unlocked, trigger, fails) ==
  IF fails THEN rec
  ELSE [rec EXCEPT !.exists = TRUE, !.unlock_trigger = trigger]

\* _update_progress: $set of unlocked_days and unlock_trigger with upsert; a
\* storage exception is caught and only printed.
UpdateProgress(rec, unlocked, trigger, fails) ==
  IF fails THEN rec
  ELSE [rec EXCEPT !.exists = TRUE, !.unlocked_days = unlocked,
                   !.unlock_trigger = trigger]

\* reset_unlock_status, the scan: the days of phase p whose embedded
\* assessment has completed == True and score >= 70, one entry per task.
ActuallyCompleted(rm, p) ==
  ListOfSet({d \in DOMAIN rm[p] :
               rm[p][d].completed = TRUE /\ rm[p][d].score >= 70})

\* reset_unlock_status, the unlock sequence: day 1, then the day after every
\* completed day, each once.
CorrectedUnlocked(completed) ==
  ListOfSet({1} \cup {d + 1 : d \in ToSet(completed)})

\* Variant of ResetUnlockStatus with a slip: the rebuilt unlock sequence is
\* appended to the stored unlocked_days instead of replacing it.
ResetUnlockStatus_OntoStored(rm, rec, p, fails) ==
  LET actually_completed == ActuallyCompleted(rm, p)
      corrected_unlocked == CorrectedUnlocked(actually_completed)
      extended ==
        [d \in DOMAIN rec.unlocked_days \cup DOMAIN corrected_unlocked |->
           Count(rec.unlocked_days, d) + Count(corrected_unlocked, d)]
  IN  IF fails
      THEN [record |-> rec, status |-> "error",
            before_completed |-> EmptyList, corrected_unlocked |-> EmptyList]
      ELSE [record |-> [exists |-> TRUE,
                        unlocked_days |-> extended,
                        completed_assessments |-> actually_completed,
                        unlock_trigger |-> "reset_corrected"],
            status |-> "success",
            before_completed |-> actually_completed,
            corrected_unlocked |-> extended]

\* reset_unlock_status: the record it writes ($set with upsert) and the value
\* it returns; any exception is caught and returned as {"error": ...}.
ResetUnlockStatus(rm, rec, p, fails) ==
  LET actually_completed == ActuallyCompleted(rm, p)
      corrected_unlocked == CorrectedUnlocked(actually_completed)
  IN  IF fails
      THEN [record |-> rec, status |-> "error",
            before_completed |-> EmptyList, corrected_unlocked |-> EmptyList]
      ELSE [record |-> [exists |-> TRUE,
                        unlocked_days |-> corrected_unlocked,
                        completed_assessments |-> actually_completed,
                        unlock_trigger |-> "reset_corrected"],
            status |-> "success",
            before_completed |-> actually_completed,
            corrected_unlocked |-> corrected_unlocked]

\* Variants of CorrectUnlocked with a slip: the list does not start with day 1;
\* every day up to the one after max_completed is unlocked.
CorrectUnlocked_NoDayOne(completed) ==
  ListOfSet({d + 1 : d \in {c \in ToSet(completed) : c + 1 <= EvalDayLimit}})
CorrectUnlocked_UpToMax(completed) ==
  LET max_completed == IF ToSet(completed) # {} THEN SetMax(ToSet(completed)) ELSE 0
  IN  ListOfSet({d \in 1..(max_completed + 1) : d <= EvalDayLimit})

\* _evaluate_unlock_conditions, the sequential unlock list: day 1, then the
\* day after every completed day up to the limit.
CorrectUnlocked(completed) ==
  ListOfSet({1} \cup {d + 1 : d \in {c \in ToSet(completed) : c + 1 <= EvalDayLimit}})

\* Variant of CurrentDay with a slip: the day after the last completed one.
CurrentDay_AfterLastCompleted(unlocked, completed) ==
  IF ToSet(completed) # {} THEN SetMax(ToSet(completed)) + 1 ELSE 1

\* _evaluate_unlock_conditions, the current day: the first unlocked day, in
\* ascending order, that is not completed, else the greatest unlocked day.
CurrentDay(unlocked, completed) ==
  LET open == {d \in ToSet(unlocked) : ~In(d, completed)}
  IN  IF open # {} THEN SetMin(open)
      ELSE IF ToSet(unlocked) # {} THEN SetMax(ToSet(unlocked)) ELSE 1

\* Storage exceptions of one status check, by the place that catches them:
\* find_one / insert_one (check_unlock_status), reset_unlock_status, and the
\* two _update_progress calls ("first_unlock", "corrected").
NoFaults == [find |-> FALSE, reset |-> FALSE, first |-> FALSE, corrected |-> FALSE]
Faults == [find : BOOLEAN, reset : BOOLEAN, first : BOOLEAN, corrected : BOOLEAN]

\* _evaluate_unlock_conditions on the document doc that check_unlock_status
\* read or inserted; rec is the stored record at that time.
EvaluateUnlockConditions(rm, rec, doc, p, f) ==
  LET unl0 == doc.unlocked_days
      comp0 == doc.completed_assessments
      inconsistent == ListLen(unl0) > ListLen(comp0) + 1
      reset == ResetUnlockStatus(rm, rec, p, f.reset)
      repaired == inconsistent /\ reset.status = "success"
      rec1 == IF inconsistent THEN reset.record ELSE rec
      unl1 == IF repaired THEN reset.corrected_unlocked ELSE unl0
      comp1 == IF repaired THEN reset.before_completed ELSE comp0
      needFirst == ~In(1, unl1)
      unl2 == IF needFirst THEN ListOfSet({1}) ELSE unl1
      rec2 == IF needFirst THEN UpdateProgress(rec1, unl2, "first_unlock", f.first)
              ELSE rec1
      correct_unlocked == CorrectUnlocked(comp1)
      changed == ToSet(unl2) # ToSet(correct_unlocked)
      unl3 == IF changed THEN correct_unlocked ELSE unl2
      rec3 == IF changed THEN UpdateProgress(rec2, unl3, "corrected", f.corrected)
              ELSE rec2
  IN  [record |-> rec3,
       path |-> IF repaired THEN "repaired"
                ELSE IF inconsistent THEN "repair_failed"
                ELSE IF needFirst THEN "first_unlock"
                ELSE IF changed THEN "corrected" ELSE "unchanged",
       unlocked_days |-> unl3,
       completed_assessments |-> comp1,
       current_day |-> CurrentDay(unl3, comp1),
       unlock_trigger |-> IF doc.unlock_trigger = "unset" THEN "sequential"
                          ELSE doc.unlock_trigger]

\* check_unlock_status: the document inserted when none is found.
InitialProgressDoc ==
  [exists |-> TRUE, unlocked_days |-> EmptyList,
   completed_assessments |-> EmptyList, unlock_trigger |-> "none"]

\* check_unlock_status: the stored record afterwards and the dict returned.
\* f.find: find_one or insert_one raises, and the except branch answers.
CheckUnlockStatus(rm, rec, p, f) ==
  IF f.find
  THEN [record |-> rec,
        result |-> [NoResult EXCEPT !.op = "check", !.phase = p, !.status = "default",
                      !.path = "exception",
                      !.unlocked_days = ListOfSet({1}), !.current_day = 1,
                      !.unlock_trigger = "default"]]
  ELSE LET doc == IF rec.exists THEN rec ELSE InitialProgressDoc
           ev == EvaluateUnlockConditions(rm, doc, doc, p, f)
       IN  [record |-> ev.record,
            result |-> [NoResult EXCEPT !.op = "check", !.phase = p, !.status = "ok",
                          !.path = ev.path,
                          !.unlocked_days = ev.unlocked_days,
                          !.completed_assessments = ev.completed_assessments,
                          !.current_day = ev.current_day,
                          !.unlock_trigger = ev.unlock_trigger]]

\* Variant of UnlockDecision with a slip: the next day is appended without
\* the test that it is not in the list yet.
UnlockDecision_NoMembershipTest(doc, completed_day) ==
  LET next_day == completed_day + 1 IN
  IF ~doc.exists
  THEN [write |-> FALSE, unlocked_days |-> EmptyList, status |-> "error", unlocked_day |-> 0]
  ELSE IF In(completed_day, doc.completed_assessments)
  THEN [write |-> TRUE, unlocked_days |-> ListAppend(doc.unlocked_days, next_day),
        status |-> "success", unlocked_day |-> next_day]
  ELSE [write |-> FALSE, unlocked_days |-> EmptyList, status |-> "error", unlocked_day |-> 0]

\* Variant of UnlockDecision with a slip: the completed day is reported as the
\* unlocked one.
UnlockDecision_ReportsCompletedDay(doc, completed_day) ==
  LET next_day == completed_day + 1 IN
  IF ~doc.exists
  THEN [write |-> FALSE, unlocked_days |-> EmptyList, status |-> "error", unlocked_day |-> 0]
  ELSE IF In(completed_day, doc.completed_assessments)
  THEN IF ~In(next_day, doc.unlocked_days)
       THEN [write |-> TRUE, unlocked_days |-> ListAppend(doc.unlocked_days, next_day),
             status |-> "success", unlocked_day |-> completed_day]
       ELSE [write |-> FALSE, unlocked_days |-> doc.unlocked_days,
             status |-> "already_unlocked", unlocked_day |-> 0]
  ELSE [write |-> FALSE, unlocked_days |-> EmptyList, status |-> "error", unlocked_day |-> 0]

\* trigger_automatic_unlock, from the document it found to its decision:
\* whether it writes, the list it writes and what it returns.
UnlockDecision(doc, completed_day) ==
  LET next_day == completed_day + 1 IN
  IF ~doc.exists
  THEN [write |-> FALSE, unlocked_days |-> EmptyList, status |-> "error", unlocked_day |-> 0]
  ELSE IF In(completed_day, doc.completed_assessments)
  THEN IF ~In(next_day, doc.unlocked_days)
       THEN [write |-> TRUE, unlocked_days |-> ListAppend(doc.unlocked_days, next_day),
             status |-> "success", unlocked_day |-> next_day]
       ELSE [write |-> FALSE, unlocked_days |-> doc.unlocked_days,
             status |-> "already_unlocked", unlocked_day |-> 0]
  ELSE [write |-> FALSE, unlocked_days |-> EmptyList, status |-> "error", unlocked_day |-> 0]

\* trigger_automatic_unlock, its update_one: $set of unlocked_days and
\* unlock_trigger on the record of the phase, without upsert.
UnlockWrite(rec, unlocked) ==
  IF rec.exists
  THEN [rec EXCEPT !.unlocked_days = unlocked, !.unlock_trigger = "auto_sequential"]
  ELSE rec

\* trigger_automatic_unlock run without interruption.
TriggerAutomaticUnlock(rec, completed_day) ==
  LET dec == UnlockDecision(rec, completed_day)
  IN  [record |-> IF dec.write THEN UnlockWrite(rec, dec.unlocked_days) ELSE rec,
       status |-> dec.status, unlocked_day |-> dec.unlocked_day]

\* ---------------------------------------- store_assessment, submit_assessment
\* $addToSet of the day into completed_assessments, with upsert.
AddCompleted(rec, day) ==
  [rec EXCEPT !.exists = TRUE,
              !.completed_assessments = AddToSet(rec.completed_assessments, day)]

\* Variant of AssessmentRecord with a slip: the previous attempts are not read.
AssessmentRecord_FirstAttempt(existing, score) ==
  [present |-> TRUE, completed |-> Passed(score), score |-> score, attempts |-> 1]

\* submit_assessment: the assessment record written over the task of the day.
AssessmentRecord(existing, score) ==
  [present |-> TRUE, completed |-> Passed(score), score |-> score,
   attempts |-> IF existing.present THEN existing.attempts + 1 ELSE 1]

\* store_assessment: the assessment stored over the task of the day.
StoredAssessment(existing, score) ==
  [present |-> TRUE, completed |-> TRUE, score |-> score,
   attempts |-> existing.attempts + 1]

\* The road_map document with the assessment of (p, day) replaced.
WithAssessment(rm, p, day, a) == [rm EXCEPT ![p][day] = a]

\* submit_assessment run without interruption: the road_map document and the
\* Progress Records afterwards, and the response.
SubmitOutcome(rm, prog, p, day, final_score) ==
  LET passed == Passed(final_score)
      assessment_record == AssessmentRecord(rm[p][day], final_score)
      added == AddCompleted(prog[p], day)
      unlock_result == TriggerAutomaticUnlock(added, day)
  IN  [roadmap |-> WithAssessment(rm, p, day, assessment_record),
       progress |-> IF passed THEN [prog EXCEPT ![p] = unlock_result.record] ELSE prog,
       result |-> [NoResult EXCEPT !.op = "submit", !.phase = p, !.day = day,
                     !.status = "success", !.passed = passed, !.score = final_score,
                     !.attempts = assessment_record.attempts,
                     !.unlock_status = IF passed THEN unlock_result.status ELSE "none",
                     !.unlocked_day = IF passed THEN unlock_result.unlocked_day ELSE 0]]

SubmitEffect(rm, prog, p, day, sub) ==
  LET evaluation_result == EvaluationResult(sub)
      o == SubmitOutcome(rm, prog, p, day, evaluation_result.score)
  IN  [roadmap |-> o.roadmap, progress |-> o.progress,
       result |-> [o.result EXCEPT !.evaluation = evaluation_result.status]]

\* store_assessment: the road_map document and the Progress Records afterwards.
StoreEffect(rm, prog, p, day, score) ==
  [roadmap |-> WithAssessment(rm, p, day, StoredAssessment(rm[p][day], score)),
   progress |-> [prog EXCEPT ![p] = AddCompleted(prog[p], day)]]

\* ------------------------------- AdaptiveRoadmapManager, progress analysis
Min(a, b) == IF a < b THEN a ELSE b
Max(a, b) == IF a > b THEN a ELSE b

\* The tasks of the weekly schedule in the order _analyze_phase_progress
\* collects them (all_tasks), each with its completed flag.
NoSchedule == [i \in {} |-> FALSE]
NoAnalysis ==
  [total_tasks |-> 0, completed_tasks |-> 0, expected_days_by_now |-> 0,
   actual_completed_days |-> 0, completion_tenths |-> 0,
   days_behind_schedule |-> 0, missed_days |-> {}, status |-> "none",
   days_since_start |-> 0]

\* Variant of ExpectedTasksByNow with a slip: not limited by the number of
\* tasks.
ExpectedTasksByNow_Uncapped(days_since_start, total_tasks) == days_since_start

\* expected_tasks_by_now = min(days_since_start, len(all_tasks)).
ExpectedTasksByNow(days_since_start, total_tasks) ==
  Min(days_since_start, total_tasks)

\* _analyze_phase_progress for a phase whose tasks are `tasks`, called
\* days_since_start = (current_date - phase_start_date).days after the plan
\* was generated (negative when generated_at lies ahead of the clock).
\* completion_tenths is completion_percentage in tenths of a percent.
AnalyzePhaseProgress(tasks, days_since_start) ==
  LET total_tasks == Cardinality(DOMAIN tasks)
      completed_tasks == Cardinality({i \in DOMAIN tasks : tasks[i]})
      actual_completed_days == completed_tasks
      expected_tasks_by_now == ExpectedTasksByNow(days_since_start, total_tasks)
      days_behind_schedule == Max(0, expected_tasks_by_now - actual_completed_days)
      completion_tenths ==
        IF total_tasks > 0
        THEN (2000 * completed_tasks + total_tasks) \div (2 * total_tasks)
        ELSE 0
  IN  [total_tasks |-> total_tasks,
       completed_tasks |-> completed_tasks,
       expected_days_by_now |-> Max(0, expected_tasks_by_now),
       actual_completed_days |-> actual_completed_days,
       completion_tenths |-> completion_tenths,
       days_behind_schedule |-> days_behind_schedule,
       missed_days |-> {i \in DOMAIN tasks : i <= expected_tasks_by_now /\ ~tasks[i]},
       status |-> IF completion_tenths = 1000 THEN "completed"
                  ELSE IF days_behind_schedule > 3 THEN "behind"
                  ELSE IF actual_completed_days > expected_tasks_by_now THEN "ahead"
                  ELSE IF actual_completed_days > 0 THEN "on_track"
                  ELSE "pending",
       days_since_start |-> days_since_start]

\* ------------------------------ AdaptiveRoadmapManager, the whole analysis
\* The phases of a roadmap as enumerate(roadmap_data['phases']) numbers them.
PlanPhases == {0, 1}

\* current_date of a run, and the days a learning plan may carry as
\* metadata.generated_at: from Today back to its first task's day, and the day
\* after Today.
Today == PlanTasks + 1
GeneratedAt == 0..(Today + 1)

\* learning_plan.adaptation_flags before any adaptation: no key is set.
NoFlags ==
  [content_simplified |-> FALSE, focus_mode |-> "none",
   difficulty_increased |-> FALSE, bonus_content |-> FALSE]

\* adaptive_settings before any adaptation.
NoAdaptations ==
  [schedule_adjustments |-> {}, content_modifications |-> {},
   difficulty_changes |-> {}, timeline_extensions |-> {}, catch_up_plans |-> {}]
NoSettings == [adaptation_count |-> 0, applied_adaptations |-> NoAdaptations]

NoPlan == [phases |-> [p \in {} |-> 0], adaptive_settings |-> NoSettings]
NoReport == [status |-> "none"]

\* A phase whose learning plan was generated on day generated_at, with
\* PlanTasks tasks, none completed.
NewPhase(generated_at) ==
  [tasks |-> [i \in 1..PlanTasks |-> FALSE], generated_at |-> generated_at,
   adaptation_flags |-> NoFlags]

\* (current_date - phase_start_date).days
DaysSinceStart(phase, current_date) == current_date - phase.generated_at

RECURSIVE SumOver(_, _)
SumOver(f, S) ==
  IF S = {} THEN 0
  ELSE LET x == CHOOSE y \in S : TRUE IN f[x] + SumOver(f, S \ {x})

\* completion_ratio = total_days_completed / total_days_expected, compared
\* with 1.2 and 0.7: c / e >= 1.2 is 5c >= 6e, c / e <= 0.7 is 10c <= 7e.
LearningVelocity(total_days_completed, total_days_expected) ==
  IF total_days_expected > 0
  THEN IF 5 * total_days_completed >= 6 * total_days_expected THEN "fast"
       ELSE IF 10 * total_days_completed <= 7 * total_days_expected THEN "slow"
       ELSE "normal"
  ELSE "normal"

\* _calculate_detailed_progress: the analysis of every phase with a weekly
\* schedule, and one learning_velocity from the totals over these phases.
CalculateDetailedProgress(phases, current_date) ==
  LET planned == {p \in DOMAIN phases : DOMAIN phases[p].tasks # {}}
      phase_details ==
        [p \in planned |->
           AnalyzePhaseProgress(phases[p].tasks, DaysSinceStart(phases[p], current_date))]
      total_days_expected ==
        SumOver([p \in planned |-> phase_details[p].expected_days_by_now], planned)
      total_days_completed ==
        SumOver([p \in planned |-> phase_details[p].actual_completed_days], planned)
  IN  [overall_stats |->
         [total_phases |-> Cardinality(DOMAIN phases),
          completed_phases |->
            Cardinality({p \in planned : phase_details[p].completion_tenths = 1000}),
          in_progress_phases |->
            Cardinality({p \in planned : /\ phase_details[p].completion_tenths # 1000
                                         /\ phase_details[p].completion_tenths > 0}),
          pending_phases |->
            Cardinality({p \in planned : phase_details[p].completion_tenths = 0})],
       phase_details |-> phase_details,
       expected_vs_actual |->
         [expected_days |-> total_days_expected, actual_days |-> total_days_completed,
          ahead_behind |-> total_days_completed - total_days_expected],
       learning_velocity |-> LearningVelocity(total_days_completed, total_days_expected)]

\* _analyze_phase_delays: only the tasks whose number is within the elapsed
\* days are walked; the longest run of missed tasks among them is tracked.
AnalyzePhaseDelays(tasks, days_since_start) ==
  LET window == {i \in DOMAIN tasks : i <= days_since_start}
      total_expected_by_now == Cardinality(window)
      total_completed == Cardinality({i \in window : tasks[i]})
      streaks == {r[2] - r[1] + 1 :
                    r \in {q \in window \X window :
                             /\ q[1] <= q[2]
                             /\ \A i \in q[1]..q[2] : ~tasks[i]}}
  IN  [days_behind |-> Max(0, total_expected_by_now - total_completed),
       expected_by_now |-> total_expected_by_now,
       actually_completed |-> total_completed,
       longest_missed_streak |-> SetMax(streaks \cup {0})]

\* The risk level of _detect_delays.
RiskLevel(total_delays) ==
  IF total_delays = 0 THEN "low"
  ELSE IF total_delays <= 3 THEN "medium"
  ELSE IF total_delays <= 7 THEN "high"
  ELSE "critical"

\* _detect_delays: the phases behind schedule with their delays, the sum of
\* their days_behind and its risk level. longest_streak_missed is set when the
\* result is created and not assigned afterwards.
DetectDelays(phases, current_date) ==
  LET planned == {p \in DOMAIN phases : DOMAIN phases[p].tasks # {}}
      phase_delays ==
        [p \in planned |->
           AnalyzePhaseDelays(phases[p].tasks, DaysSinceStart(phases[p], current_date))]
      behind == {p \in planned : phase_delays[p].days_behind > 0}
      total_delays == SumOver([p \in behind |-> phase_delays[p].days_behind], behind)
  IN  [total_days_behind |-> total_delays,
       phases_behind_schedule |-> [p \in behind |-> phase_delays[p]],
       longest_streak_missed |-> 0,
       risk_level |-> RiskLevel(total_delays)]

\* _generate_adaptations: the types of the adaptations of each kind.
GenerateAdaptations(progress_analysis, delay_analysis) ==
  LET risk_level == delay_analysis.risk_level
      learning_velocity == progress_analysis.learning_velocity
      slow_or_at_risk == learning_velocity = "slow" \/ risk_level \in {"high", "critical"}
  IN  [schedule_adjustments |-> IF slow_or_at_risk THEN {"extend_timeline"} ELSE {},
       content_modifications |-> IF slow_or_at_risk THEN {"simplify_content"} ELSE {},
       difficulty_changes |->
         IF ~slow_or_at_risk /\ learning_velocity = "fast"
         THEN {"increase_challenge"} ELSE {},
       timeline_extensions |-> {},
       catch_up_plans |->
         IF delay_analysis.total_days_behind > 0
         THEN {[type |-> "weekend_intensive",
                days_to_recover |-> delay_analysis.total_days_behind]}
         ELSE {}]

\* The adaptation_flags of a learning plan after _apply_adaptations: a flag is
\* set for an adaptation of the run, the other keys stay as they are.
AdaptedFlags(flags, adaptations) ==
  LET simplify == "simplify_content" \in adaptations.content_modifications
      increase == "increase_challenge" \in adaptations.difficulty_changes
  IN  [content_simplified |-> simplify \/ flags.content_simplified,
       focus_mode |-> IF simplify THEN "core_concepts" ELSE flags.focus_mode,
       difficulty_increased |-> increase \/ flags.difficulty_increased,
       bonus_content |-> increase \/ flags.bonus_content]

\* Variant of ApplyAdaptations with a slip: a simplification also reopens the
\* tasks of every plan.
ApplyAdaptations_ReopensTasks(roadmap_data, adaptations) ==
  [roadmap_data EXCEPT
     !.adaptive_settings =
       [adaptation_count |-> @.adaptation_count + 1,
        applied_adaptations |-> adaptations],
     !.phases =
       [p \in DOMAIN @ |->
          [@[p] EXCEPT
             !.adaptation_flags = AdaptedFlags(@, adaptations),
             !.tasks = IF "simplify_content" \in adaptations.content_modifications
                       THEN [i \in DOMAIN @ |-> FALSE] ELSE @]]]

\* _apply_adaptations on a copy of the roadmap document: adaptive_settings
\* is updated and every phase with a learning plan gets its adaptation_flags.
ApplyAdaptations(roadmap_data, adaptations) ==
  [roadmap_data EXCEPT
     !.adaptive_settings =
       [adaptation_count |-> @.adaptation_count + 1,
        applied_adaptations |-> adaptations],
     !.phases =
       [p \in DOMAIN @ |->
          [@[p] EXCEPT !.adaptation_flags = AdaptedFlags(@, adaptations)]]]

\* analyze_progress_and_adapt(user, roadmap_data): the response, and the
\* document that _save_adapted_roadmap writes to users.road_map.
AnalyzeProgressAndAdapt(roadmap_data, current_date) ==
  LET progress_analysis == CalculateDetailedProgress(roadmap_data.phases, current_date)
      delay_analysis == DetectDelays(roadmap_data.phases, current_date)
      adaptations == GenerateAdaptations(progress_analysis, delay_analysis)
      adapted_roadmap == ApplyAdaptations(roadmap_data, adaptations)
  IN  [status |-> "success",
       progress_analysis |-> progress_analysis,
       delay_analysis |-> delay_analysis,
       adaptations_applied |-> adaptations,
       updated_roadmap |-> adapted_roadmap]

\* ------------------------------------------------------------------ state
VARIABLES
  roadmap,    \* users.road_map: phase -> day -> embedded assessment
  progress,   \* learning_progress: phase -> Progress Record
  result,     \* what the last completed call returned
  procs,      \* the requests in flight: position and local variables
  start,      \* the stores when the requests in flight began
  schedule,   \* learning_plan of a phase: task number -> completed flag
  analysis,   \* what the last progress analysis of that phase returned
  plan,       \* users.road_map: the learning plans and adaptive_settings
  report      \* what the last analyze_progress_and_adapt returned

vars ==
  <<roadmap, progress, result, procs, start, schedule, analysis, plan, report>>

IdleProc ==
  [pc |-> "idle", op |-> "none", phase |-> 0, day |-> 0, score |-> 0,
   roadmap |-> EmptyRoadmap, unlocked_days |-> EmptyList,
   completed_assessments |-> EmptyList, attempts |-> 0,
   unlock_status |-> "none", unlocked_day |-> 0,
   plan |-> NoPlan, task |-> 0, completed |-> FALSE]

Init ==
  /\ roadmap = EmptyRoadmap
  /\ progress = NoProgress
  /\ result = NoResult
  /\ procs = [i \in Procs |-> IdleProc]
  /\ start = [roadmap |-> EmptyRoadmap, progress |-> NoProgress]
  /\ schedule = NoSchedule
  /\ analysis = NoAnalysis
  /\ plan = NoPlan
  /\ report = NoReport

\* ------------------------------------ requests served one after the other
\* get_unlock_status / take_assessment: check_unlock_status(user, p).
GetUnlockStatus(p, f) ==
  LET r == CheckUnlockStatus(roadmap, progress[p], p, f) IN
  /\ progress' = [progress EXCEPT ![p] = r.record]
  /\ result' = r.result
  /\ UNCHANGED <<roadmap, procs, start, schedule, analysis, plan, report>>

\* POST /api/assessment/submit with the day and the task of that day.
SubmitAssessment(p, day, sub) ==
  LET e == SubmitEffect(roadmap, progress, p, day, sub) IN
  /\ roadmap[p][day].attempts < MaxAttempts
  /\ roadmap' = e.roadmap
  /\ progress' = e.progress
  /\ result' = e.result
  /\ UNCHANGED <<procs, start, schedule, analysis, plan, report>>

\* POST /api/assessment/store with the day and the task of that day.
StoreAssessment(p, day, score) ==
  LET e == StoreEffect(roadmap, progress, p, day, score) IN
  /\ roadmap[p][day].attempts < MaxAttempts
  /\ roadmap' = e.roadmap
  /\ progress' = e.progress
  /\ result' = [NoResult EXCEPT !.op = "store", !.phase = p, !.day = day,
                  !.status = "success", !.score = score]
  /\ UNCHANGED <<procs, start, schedule, analysis, plan, report>>

\* reset_unlock_status(user, p), which reset_all_phases calls for each phase.
ResetStatus(p, fails) ==
  LET r == ResetUnlockStatus(roadmap, progress[p], p, fails) IN
  /\ progress' = [progress EXCEPT ![p] = r.record]
  /\ result' = [NoResult EXCEPT !.op = "reset", !.phase = p, !.status = r.status,
                  !.unlocked_days = r.corrected_unlocked,
                  !.completed_assessments = r.before_completed]
  /\ UNCHANGED <<roadmap, procs, start, schedule, analysis, plan, report>>

\* The phase the sequential runs work on; its record and its tasks are
\* touched by no call on another phase.
SeqPhases == {SetMin(Phases)}

Next ==
  \E p \in SeqPhases :
    \/ GetUnlockStatus(p, NoFaults)
    \/ \E day \in SeqDays, sub \in Submissions : SubmitAssessment(p, day, sub)
    \/ \E day \in SeqDays, score \in StoreScores : StoreAssessment(p, day, score)
    \/ ResetStatus(p, FALSE)

Spec == Init /\ [][Next]_vars

\* ------------------------------------------ requests served concurrently
\* The stores after a learner worked through k days of every phase, one
\* request at a time: nothing yet (k = -1), the first status check (k = 0),
\* then a passing submission for each of the days 1..k.
PassingSubmission ==
  CHOOSE s \in Submissions : s.type = "theory" /\ Passed(Evaluate(s))
RECURSIVE AfterPhases(_, _, _)
AfterPhases(st, n, k) ==
  IF n = 0 THEN st
  ELSE LET prev == AfterPhases(st, n - 1, k) IN
       IF k = 0
       THEN [roadmap |-> prev.roadmap,
             progress |-> [prev.progress EXCEPT
               ![n] = CheckUnlockStatus(prev.roadmap, prev.progress[n], n, NoFaults).record]]
       ELSE LET e == SubmitEffect(prev.roadmap, prev.progress, n, k, PassingSubmission)
            IN  [roadmap |-> e.roadmap, progress |-> e.progress]
RECURSIVE PassedThrough(_)
PassedThrough(k) ==
  IF k = -1 THEN [roadmap |-> EmptyRoadmap, progress |-> NoProgress]
  ELSE AfterPhases(PassedThrough(k - 1), NPhases, k)

InitConcurrent ==
  /\ \E k \in -1..(MaxDay - 1) : start = PassedThrough(k)
  /\ roadmap = start.roadmap
  /\ progress = start.progress
  /\ result = NoResult
  /\ procs = [i \in Procs |-> IdleProc]
  /\ schedule = NoSchedule
  /\ analysis = NoAnalysis
  /\ plan = NoPlan
  /\ report = NoReport

Finish(pr, status, unlocked_day) ==
  [pr EXCEPT !.pc = "done", !.roadmap = EmptyRoadmap, !.plan = NoPlan,
             !.unlocked_days = EmptyList,
             !.completed_assessments = EmptyList,
             !.unlock_status = status, !.unlocked_day = unlocked_day]

\* submit_assessment up to get_user_by_id: the answers are evaluated and the
\* road_map document is read.
SubmitRead(i, p, day, sub) ==
  /\ procs[i].pc = "idle"
  /\ roadmap[p][day].attempts < MaxAttempts
  /\ procs' = [procs EXCEPT ![i] =
       [@ EXCEPT !.pc = "write_roadmap", !.op = "submit", !.phase = p, !.day = day,
                 !.score = Evaluate(sub), !.roadmap = roadmap, !.plan = plan]]
  /\ UNCHANGED <<roadmap, progress, result, start, schedule, analysis, plan, report>>

\* submit_assessment, users.update_one: the document read earlier is written
\* back whole, learning plans and adaptive settings included, with the
\* assessment record of the task replaced.
SubmitWriteRoadmap(i) ==
  LET pr == procs[i]
      assessment_record == AssessmentRecord(pr.roadmap[pr.phase][pr.day], pr.score)
  IN  /\ pr.pc = "write_roadmap"
      /\ roadmap' = WithAssessment(pr.roadmap, pr.phase, pr.day, assessment_record)
      /\ plan' = pr.plan
      /\ procs' = [procs EXCEPT ![i] =
           IF Passed(pr.score)
           THEN [pr EXCEPT !.pc = "add_completed", !.roadmap = EmptyRoadmap,
                           !.plan = NoPlan, !.attempts = assessment_record.attempts]
           ELSE [Finish(pr, "none", 0) EXCEPT !.attempts = assessment_record.attempts]]
      /\ UNCHANGED <<progress, result, start, schedule, analysis, report>>

\* submit_assessment, learning_progress.update_one with $addToSet.
SubmitAddCompleted(i) ==
  LET pr == procs[i] IN
  /\ pr.pc = "add_completed"
  /\ progress' = [progress EXCEPT ![pr.phase] = AddCompleted(@, pr.day)]
  /\ procs' = [procs EXCEPT ![i] = [pr EXCEPT !.pc = "unlock_read"]]
  /\ UNCHANGED <<roadmap, result, start, schedule, analysis, plan, report>>

\* trigger_automatic_unlock, find_one and the decision taken on what it read.
UnlockRead(i) ==
  LET pr == procs[i]
      dec == UnlockDecision(progress[pr.phase], pr.day)
  IN  /\ pr.pc = "unlock_read"
      /\ procs' = [procs EXCEPT ![i] =
           IF dec.write
           THEN [pr EXCEPT !.pc = "unlock_write", !.unlocked_days = dec.unlocked_days,
                           !.unlock_status = dec.status, !.unlocked_day = dec.unlocked_day]
           ELSE Finish(pr, dec.status, dec.unlocked_day)]
      /\ UNCHANGED <<roadmap, progress, result, start, schedule, analysis, plan, report>>

\* trigger_automatic_unlock, update_one with the list built from what it read.
UnlockWriteStep(i) ==
  LET pr == procs[i] IN
  /\ pr.pc = "unlock_write"
  /\ progress' = [progress EXCEPT ![pr.phase] = UnlockWrite(@, pr.unlocked_days)]
  /\ procs' = [procs EXCEPT ![i] = Finish(pr, pr.unlock_status, pr.unlocked_day)]
  /\ UNCHANGED <<roadmap, result, start, schedule, analysis, plan, report>>

\* reset_unlock_status up to the scan of the road_map document it read.
ResetRead(i, p) ==
  LET r == ResetUnlockStatus(roadmap, progress[p], p, FALSE) IN
  /\ procs[i].pc = "idle"
  /\ procs' = [procs EXCEPT ![i] =
       [@ EXCEPT !.pc = "reset_write", !.op = "reset", !.phase = p,
                 !.unlocked_days = r.corrected_unlocked,
                 !.completed_assessments = r.before_completed]]
  /\ UNCHANGED <<roadmap, progress, result, start, schedule, analysis, plan, report>>

\* reset_unlock_status, update_one with the lists built from what it read.
ResetWrite(i) ==
  LET pr == procs[i] IN
  /\ pr.pc = "reset_write"
  /\ progress' = [progress EXCEPT ![pr.phase] =
       [exists |-> TRUE, unlocked_days |-> pr.unlocked_days,
        completed_assessments |-> pr.completed_assessments,
        unlock_trigger |-> "reset_corrected"]]
  /\ procs' = [procs EXCEPT ![i] = Finish(pr, "success", 0)]
  /\ UNCHANGED <<roadmap, result, start, schedule, analysis, plan, report>>

AllDone == \A i \in Procs : procs[i].pc = "done"

\* The first status check once the concurrent requests have returned, with
\* storage exceptions at the places the code catches them.
StatusCheckAfter(p, f) ==
  /\ AllDone
  /\ result = NoResult
  /\ GetUnlockStatus(p, f)

NextConcurrent ==
  \/ \E i \in Procs, p \in Phases, day \in Days, sub \in Submissions :
       SubmitRead(i, p, day, sub)
  \/ \E i \in Procs : SubmitWriteRoadmap(i)
  \/ \E i \in Procs : SubmitAddCompleted(i)
  \/ \E i \in Procs : UnlockRead(i)
  \/ \E i \in Procs : UnlockWriteStep(i)
  \/ \E i \in Procs, p \in Phases : ResetRead(i, p)
  \/ \E i \in Procs : ResetWrite(i)
  \/ \E p \in Phases, f \in Faults : StatusCheckAfter(p, f)

SpecConcurrent == InitConcurrent /\ [][NextConcurrent]_vars

\* ================================================================ claims
SubmittedPass(i) == procs[i].op = "submit" /\ procs[i].pc = "done" /\ Passed(procs[i].score)
Submitted(i) == procs[i].op = "submit" /\ procs[i].pc = "done"
SizeBound(unlocked, completed) ==
  Cardinality(ToSet(unlocked)) <= Cardinality(ToSet(completed)) + 1

\* C1: in every stored Progress Record, after any sequence of calls, day 1 is
\* in unlocked_days.
C1_DayOneAlwaysUnlocked ==
  \A p \in Phases : progress[p].exists => In(1, progress[p].unlocked_days)

\* C2: the result of check_unlock_status has day 1 in unlocked_days on every
\* path: record missing, inconsistent and repaired, repair failed, storage
\* exception.
C2_CheckResultHasDayOne ==
  result.op = "check" => In(1, result.unlocked_days)

\* C2 witness: a status check that found an inconsistent record and whose
\* repair failed.
C2_Witness ==
  /\ result.op = "check"
  /\ result.path = "repair_failed"
  /\ In(1, result.unlocked_days)

\* C3: after every operation completed_assessments is a subset of
\* unlocked_days, in the stored record and in the result of a status check.
C3_CompletedWithinUnlocked ==
  /\ \A p \in Phases :
       ToSet(progress[p].completed_assessments) \subseteq ToSet(progress[p].unlocked_days)
  /\ result.op = "check" =>
       ToSet(result.completed_assessments) \subseteq ToSet(result.unlocked_days)

\* C4: after every operation that changes the record, the day after every
\* completed day, when not above the day cap, is unlocked.
C4_NextDayUnlocked ==
  \A p \in Phases : \A d \in ToSet(progress[p].completed_assessments) :
    d + 1 <= EvalDayLimit => In(d + 1, progress[p].unlocked_days)

C6_CheckResultWithinBound ==
  result.op = "check" =>
    /\ SizeBound(result.unlocked_days, result.completed_assessments)
    /\ result.status \in {"ok", "default"}
    /\ result.path = "repaired" =>
         /\ ListLen(progress[result.phase].unlocked_days)
              <= ListLen(progress[result.phase].completed_assessments) + 1
         /\ result.unlocked_days = progress[result.phase].unlocked_days

\* C6 witness: a status check that found a record with more unlocked days
\* than the bound allows and rebuilt it.
C6_Witness ==
  /\ result.op = "check"
  /\ result.path = "repaired"
  /\ result.status = "ok"

\* C7: once two concurrent passing submissions for one phase have both
\* returned, the day after each submitted day is unlocked and each submitted
\* day is in completed_assessments exactly once.
C7_NoLostUnlock ==
  \A i, j \in Procs :
    (/\ i # j /\ SubmittedPass(i) /\ SubmittedPass(j)
     /\ procs[i].phase = procs[j].phase /\ result = NoResult)
    => /\ In(procs[i].day + 1, progress[procs[i].phase].unlocked_days)
       /\ Count(progress[procs[i].phase].completed_assessments, procs[i].day) = 1

\* C8: once two concurrent passing submissions for the same day of one phase
\* have both returned, the next day is in unlocked_days once and the day is in
\* completed_assessments once.
C8_SameDayTwice ==
  \A i, j \in Procs :
    (/\ i # j /\ SubmittedPass(i) /\ SubmittedPass(j)
     /\ procs[i].phase = procs[j].phase /\ procs[i].day = procs[j].day
     /\ result = NoResult)
    => /\ Count(progress[procs[i].phase].unlocked_days, procs[i].day + 1) = 1
       /\ Count(progress[procs[i].phase].completed_assessments, procs[i].day) = 1

\* C8 witness: two passing submissions for day 3 of a phase whose days 1 and 2
\* were passed before have both returned, and day 4 is unlocked.
C8_Witness ==
  /\ start = PassedThrough(2)
  /\ \A i \in Procs : SubmittedPass(i) /\ procs[i].phase = 1 /\ procs[i].day = 3
  /\ result = NoResult
  /\ Count(progress[1].unlocked_days, 4) = 1

\* C9: once two concurrent submissions for two different phases have both
\* returned, both assessment records are in the road_map document and each
\* phase's record is what the submission alone would have left.
C9_PhasesIndependent ==
  \A i, j \in Procs :
    (/\ i # j /\ Submitted(i) /\ Submitted(j)
     /\ procs[i].phase # procs[j].phase /\ result = NoResult)
    => LET p == procs[i].phase
           day == procs[i].day
           alone == SubmitOutcome(start.roadmap, start.progress, p, day, procs[i].score)
       IN  /\ roadmap[p][day] = alone.roadmap[p][day]
           /\ progress[p] = alone.progress[p]

\* C10: a failed submission leaves completed_assessments and unlocked_days
\* unchanged and adds exactly one to the attempt counter of the day's
\* assessment, whatever the assessment was before.
C10_FailedSubmissionFrame ==
  [][ (result'.op = "submit" /\ ~result'.passed) =>
        /\ progress' = progress
        /\ roadmap'[result'.phase][result'.day].attempts
             = roadmap[result'.phase][result'.day].attempts + 1
        /\ result'.attempts = roadmap[result'.phase][result'.day].attempts + 1 ]_vars

\* C10 witness: a failed retry of a day whose assessment was passed before.
C10_Witness ==
  /\ result.op = "submit"
  /\ ~result.passed
  /\ result.attempts = 2
  /\ In(result.day, progress[result.phase].completed_assessments)
  /\ In(result.day + 1, progress[result.phase].unlocked_days)

\* C11: every assessment record written into the curriculum document, by
\* submit_assessment or by store_assessment, has completed = TRUE exactly when
\* its score is at least 70.
C11_CompletedIffPassingScore ==
  \A p \in Phases, d \in Days :
    roadmap[p][d].present
      => (roadmap[p][d].completed <=> roadmap[p][d].score >= PassScore)

\* C12: reset_unlock_status is idempotent.  In the state a successful reset of
\* a phase leaves, a second reset of the same phase with nothing in between
\* returns the same completed_assessments and unlocked_days as the first one
\* returned and writes the record that is already stored.
C12_ResetIdempotent ==
  (result.op = "reset" /\ result.status = "success")
    => LET p == result.phase
           again == ResetUnlockStatus(roadmap, progress[p], p, FALSE)
       IN  /\ again.status = result.status
           /\ again.before_completed = result.completed_assessments
           /\ again.corrected_unlocked = result.unlocked_days
           /\ again.record = progress[p]

\* A first reset has rebuilt the record of a phase with a passed day.
C12_Witness ==
  /\ result.op = "reset"
  /\ result.status = "success"
  /\ In(1, result.completed_assessments)
  /\ In(2, result.unlocked_days)
  /\ progress[result.phase].unlock_trigger = "reset_corrected"

\* ------------------------------------------------ a phase with many days
\* A phase whose tasks are numbered 1..LastDay, which is beyond the limit of
\* _evaluate_unlock_conditions, and which has one more task carrying a stray
\* day number (day numbers come from generated content and may have gaps).
\* The learner has passed the days 1..k one request at a time; the requests
\* that follow are status checks, resets and submissions for the next open
\* day or for the stray one.
LongDays == 1..LastDay
StrayDay == ResetDayLimit
LongTaskDays == LongDays \cup {StrayDay}
LongRoadmap == [p \in Phases |-> [d \in LongTaskDays |-> NoAssessment]]

\* The stores after the first status check and a passing submission for each
\* of the days 1..k, in that order: every submission appended its next day.
PassedAssessment ==
  AssessmentRecord(NoAssessment, Evaluate(PassingSubmission))
LongPassed(k) ==
  [roadmap |-> [LongRoadmap EXCEPT
     ![1] = [d \in LongTaskDays |-> IF d \in 1..k THEN PassedAssessment
                                                   ELSE NoAssessment]],
   progress |-> [NoProgress EXCEPT
     ![1] = [exists |-> TRUE,
             unlocked_days |-> ListOfSet(1..(k + 1)),
             completed_assessments |-> ListOfSet(1..k),
             unlock_trigger |-> IF k = 0 THEN "first_unlock" ELSE "auto_sequential"]]]

InitLongPhase ==
  /\ \E k \in 0..LastDay : start = LongPassed(k)
  /\ roadmap = start.roadmap
  /\ progress = start.progress
  /\ result = NoResult
  /\ procs = [i \in Procs |-> IdleProc]
  /\ schedule = NoSchedule
  /\ analysis = NoAnalysis
  /\ plan = NoPlan
  /\ report = NoReport

\* The first day of the schedule that had no passed assessment at the start,
\* if any.
OpenDays(rm, p) ==
  LET open == {d \in LongDays : ~(rm[p][d].completed /\ rm[p][d].score >= PassScore)}
  IN  IF open = {} THEN {} ELSE {SetMin(open)}

NextLongPhase ==
  \E p \in SeqPhases :
    \/ \E f \in Faults : GetUnlockStatus(p, f)
    \/ \E day \in OpenDays(start.roadmap, p) \cup {StrayDay}, sub \in Submissions :
         SubmitAssessment(p, day, sub)
    \/ ResetStatus(p, FALSE)

SpecLongPhase == InitLongPhase /\ [][NextLongPhase]_vars

\* The days of phase p whose embedded assessment is completed with a passing
\* score, read off the curriculum document.
PassedDays(rm, p) ==
  {d \in DOMAIN rm[p] : rm[p][d].completed /\ rm[p][d].score >= PassScore}

C14_FirstCheckOnFreshPhase ==
  [][\A p \in Phases :
       (/\ ~progress[p].exists
        /\ \A d \in DOMAIN roadmap[p] : ~roadmap[p][d].present
        /\ result'.op = "check"
        /\ result'.phase = p)
         => /\ result'.unlocked_days = ListOfSet({1})
            /\ result'.completed_assessments = EmptyList
            /\ result'.current_day = 1
            /\ progress'[p].exists
            /\ progress'[p].unlocked_days = ListOfSet({1})
            /\ progress'[p].completed_assessments = EmptyList]_vars

\* The first status check of a phase nobody submitted for has answered.
C14_Witness ==
  /\ result.op = "check"
  /\ result.path = "first_unlock"
  /\ result.unlocked_days = ListOfSet({1})
  /\ \A d \in DOMAIN roadmap[result.phase] : ~roadmap[result.phase][d].present
  /\ progress[result.phase].unlock_trigger = "first_unlock"

\* C15 as stated: every passing submission for day d returns
\* unlock_result.unlocked_day = d + 1, and the status check that follows it
\* returns d + 1 among the unlocked days.
C15_PassReportsNextDay ==
  [][/\ (result'.op = "submit" /\ result'.passed)
          => result'.unlocked_day = result'.day + 1
     /\ (/\ result.op = "submit" /\ result.passed
         /\ result.day + 1 <= EvalDayLimit
         /\ result'.op = "check" /\ result'.phase = result.phase)
          => In(result.day + 1, result'.unlocked_days)]_vars

\* C15, amended: a passing submission for day d returns unlocked_day = d + 1
\* when d + 1 was not yet in the stored unlocked_days, whatever failed
\* submissions came before and whether or not a status check ever ran; when
\* d + 1 was already unlocked (d passed or stored before) it returns
\* already_unlocked without an unlocked_day.  Either way the status check that
\* follows returns d + 1 among the unlocked days.
C15_PassUnlocksNextDay ==
  [][/\ (result'.op = "submit" /\ result'.passed)
          => IF In(result'.day + 1, progress[result'.phase].unlocked_days)
             THEN /\ result'.unlock_status = "already_unlocked"
                  /\ result'.unlocked_day = 0
             ELSE /\ result'.unlock_status = "success"
                  /\ result'.unlocked_day = result'.day + 1
     /\ (/\ result.op = "submit" /\ result.passed
         /\ result.day + 1 <= EvalDayLimit
         /\ result'.op = "check" /\ result'.phase = result.phase)
          => In(result.day + 1, result'.unlocked_days)]_vars

\* A day was passed at the second attempt on a phase no status check ever ran
\* on (day 1 is missing from the record), and its next day was reported.
C15_Witness ==
  /\ result.op = "submit"
  /\ result.passed
  /\ result.attempts = 2
  /\ result.unlocked_day = result.day + 1
  /\ ~In(1, progress[result.phase].unlocked_days)

\* ------------------------------------------ requests that meet a failure
\* The requests served one after the other, with the failures the handlers
\* provide for: a storage exception at any of the storage calls of
\* check_unlock_status, answers the evaluators raise on, and a reset that
\* raises.
NextFaulty ==
  \E p \in SeqPhases :
    \/ \E f \in Faults : GetUnlockStatus(p, f)
    \/ \E day \in SeqDays, sub \in Submissions \cup MalformedSubmissions :
         SubmitAssessment(p, day, sub)
    \/ \E day \in SeqDays, score \in StoreScores : StoreAssessment(p, day, score)
    \/ \E fails \in BOOLEAN : ResetStatus(p, fails)

SpecFaulty == Init /\ [][NextFaulty]_vars

\* C16: when the evaluator fails during submit_assessment, the caller gets an
\* error and nothing is mutated: the curriculum document (the assessment
\* record with its attempt counter) and the progress records are as before.
C16_EvaluatorFailureSurfaced ==
  [][(result'.op = "submit" /\ result'.evaluation = "ERROR")
       => /\ result'.status = "error"
          /\ roadmap' = roadmap
          /\ progress' = progress]_vars

\* C17: an unlock is reported only after the write that records it succeeded.
\* When submit_assessment reports unlocked_day, and when check_unlock_status
\* returns unlocked_days, the stored progress record contains those days.
C17_ReportedUnlockIsStored ==
  /\ (result.op = "submit" /\ result.unlocked_day # 0)
       => In(result.unlocked_day, progress[result.phase].unlocked_days)
  /\ result.op = "check"
       => \A d \in ToSet(result.unlocked_days) :
            In(d, progress[result.phase].unlocked_days)

\* C18: in every result of check_unlock_status, current_day is the smallest
\* returned unlocked day that is not among the returned completed days, or the
\* greatest unlocked day when all of them are completed; it is always one of
\* the returned unlocked days.
C18_CurrentDayOfResult ==
  result.op = "check"
    => LET unlocked == ToSet(result.unlocked_days)
           open == unlocked \ ToSet(result.completed_assessments)
       IN  /\ result.current_day \in unlocked
           /\ IF open # {} THEN result.current_day = SetMin(open)
                           ELSE result.current_day = SetMax(unlocked)

\* A status check on a phase whose unlocked days are all completed: the days
\* up to the limit of the evaluation are passed, the day after it stays locked.
C18_Witness ==
  /\ result.op = "check"
  /\ ToSet(result.unlocked_days) \subseteq ToSet(result.completed_assessments)
  /\ result.current_day = EvalDayLimit

\* The causes a write of unlocked_days is tagged with.
UnlockTriggers == {"first_unlock", "corrected", "reset_corrected", "auto_sequential"}

\* C19: a stored record with unlocked days carries an unlock_trigger that names
\* the cause of the write, and the unlock_trigger check_unlock_status returns
\* is the one stored in the record when the call returns, hence one of the
\* four causes.
C19_TriggerNamesCause ==
  /\ \A p \in Phases :
       progress[p].unlocked_days # EmptyList
         => progress[p].unlock_trigger \in UnlockTriggers
  /\ result.op = "check"
       => /\ result.unlock_trigger = progress[result.phase].unlock_trigger
          /\ result.unlock_trigger \in UnlockTriggers

\* ------------------------------------------------- the progress analysis
\* One phase with a generated learning plan of up to MaxTasks tasks: tasks are
\* marked completed or not completed (complete_task), and the phase is
\* analysed at any number of days from the day before the plan was generated
\* up to MaxElapsed days after it.
InitAnalysis ==
  /\ \E n \in 0..MaxTasks : schedule = [i \in 1..n |-> FALSE]
  /\ analysis = NoAnalysis
  /\ plan = NoPlan
  /\ report = NoReport
  /\ roadmap = EmptyRoadmap
  /\ progress = NoProgress
  /\ result = NoResult
  /\ procs = [i \in Procs |-> IdleProc]
  /\ start = [roadmap |-> EmptyRoadmap, progress |-> NoProgress]

\* POST /complete-task: the completed flag of one task is set as posted.
CompleteTask(i, completed) ==
  /\ i \in DOMAIN schedule
  /\ schedule' = [schedule EXCEPT ![i] = completed]
  /\ UNCHANGED <<roadmap, progress, result, procs, start, analysis, plan, report>>

\* _calculate_detailed_progress on the phase, at the clock of the call.
AnalyzeProgress(days_since_start) ==
  /\ analysis' = AnalyzePhaseProgress(schedule, days_since_start)
  /\ UNCHANGED <<roadmap, progress, result, procs, start, schedule, plan, report>>

NextAnalysis ==
  \/ \E i \in 1..MaxTasks, completed \in BOOLEAN : CompleteTask(i, completed)
  \/ \E days_since_start \in (-1)..MaxElapsed : AnalyzeProgress(days_since_start)

SpecAnalysis == InitAnalysis /\ [][NextAnalysis]_vars

\* C20 as stated: for every phase and every number of elapsed days, a start
\* in the future included, expected_days_by_now = min(elapsed days,
\* total_tasks) and days_behind_schedule = max(0, expected_days_by_now -
\* actual_completed_days) with the values of the same result.
C20_ExpectedIsMinOfElapsed ==
  analysis # NoAnalysis
    => /\ analysis.expected_days_by_now
            = Min(analysis.days_since_start, analysis.total_tasks)
       /\ analysis.days_behind_schedule
            = Max(0, analysis.expected_days_by_now - analysis.actual_completed_days)

\* C20, amended: expected_days_by_now = max(0, min(elapsed days, total_tasks)),
\* which is 0 for a start in the future, and days_behind_schedule = max(0,
\* expected_days_by_now - actual_completed_days) with the values of the same
\* result.
C20_ExpectedIsClampedMin ==
  analysis # NoAnalysis
    => /\ analysis.expected_days_by_now
            = Max(0, Min(analysis.days_since_start, analysis.total_tasks))
       /\ analysis.days_behind_schedule
            = Max(0, analysis.expected_days_by_now - analysis.actual_completed_days)

\* An analysis before the start of a plan that already has a completed task.
C20_Witness ==
  /\ analysis # NoAnalysis
  /\ analysis.days_since_start < 0
  /\ analysis.total_tasks > 1
  /\ analysis.actual_completed_days > 0
  /\ analysis.expected_days_by_now = 0
  /\ analysis.days_behind_schedule = 0

\* C21: the status of an analysed phase follows, by priority, from the values
\* reported in the same result: completed at 100 percent; else behind when
\* days_behind_schedule > 3; else ahead when actual_completed_days >
\* expected_days_by_now; else on_track when a task is completed; else pending.
\* This for every elapsed time, a start in the future included, and for a
\* phase without tasks.
C21_StatusByPriority ==
  analysis # NoAnalysis
    => analysis.status =
         IF analysis.total_tasks > 0 /\ analysis.completed_tasks = analysis.total_tasks
         THEN "completed"
         ELSE IF analysis.days_behind_schedule > 3 THEN "behind"
         ELSE IF analysis.actual_completed_days > analysis.expected_days_by_now
         THEN "ahead"
         ELSE IF analysis.actual_completed_days > 0 THEN "on_track"
         ELSE "pending"

\* ------------------------------------------------- the adaptive analysis
\* A roadmap of two phases whose learning plans were generated on any two
\* days; tasks are marked completed or not completed and the adaptive
\* analysis runs on the stored roadmap, all on day Today.
InitAdaptive ==
  /\ \E g \in [PlanPhases -> GeneratedAt] :
       plan = [phases |-> [p \in PlanPhases |-> NewPhase(g[p])],
               adaptive_settings |-> NoSettings]
  /\ report = NoReport
  /\ schedule = NoSchedule
  /\ analysis = NoAnalysis
  /\ roadmap = EmptyRoadmap
  /\ progress = NoProgress
  /\ result = NoResult
  /\ procs = [i \in Procs |-> IdleProc]
  /\ start = [roadmap |-> EmptyRoadmap, progress |-> NoProgress]

\* users.road_map as one document: the embedded assessments, the learning
\* plans and the adaptive settings.
RoadmapData == [assessments |-> roadmap, phases |-> plan.phases,
                adaptive_settings |-> plan.adaptive_settings]

\* POST /complete-task on a task of a phase of the roadmap.
CompleteTaskOfPhase(phase_id, i, completed) ==
  /\ phase_id \in DOMAIN plan.phases
  /\ i \in DOMAIN plan.phases[phase_id].tasks
  /\ plan' = [plan EXCEPT !.phases[phase_id].tasks[i] = completed]
  /\ report' = NoReport
  /\ UNCHANGED <<roadmap, progress, result, procs, start, schedule, analysis>>

\* POST /api/roadmap/analyze-and-adapt: analyze_progress_and_adapt on the
\* stored roadmap; a failing save is logged and the response is the same.
AnalyzeAndAdapt(save_fails) ==
  LET r == AnalyzeProgressAndAdapt(RoadmapData, Today) IN
  /\ plan.phases # NoPlan.phases
  /\ plan.adaptive_settings.adaptation_count < MaxAdaptations
  /\ report' = r
  /\ IF save_fails
     THEN UNCHANGED <<roadmap, plan>>
     ELSE /\ roadmap' = report'.updated_roadmap.assessments
          /\ plan' = [phases |-> report'.updated_roadmap.phases,
                      adaptive_settings |-> report'.updated_roadmap.adaptive_settings]
  /\ UNCHANGED <<progress, result, procs, start, schedule, analysis>>

NextAdaptive ==
  \/ \E phase_id \in PlanPhases, i \in 1..PlanTasks, completed \in BOOLEAN :
       CompleteTaskOfPhase(phase_id, i, completed)
  \/ \E save_fails \in BOOLEAN : AnalyzeAndAdapt(save_fails)

SpecAdaptive == InitAdaptive /\ [][NextAdaptive]_vars

\* C22: learning_velocity is classified from the ratio of the actual completed
\* days to the expected days of a phase (normal at 0 expected days, fast from
\* 1.2, slow up to 0.7, normal between), whatever the other phases of the
\* learner are.
C22_VelocityOfPhase ==
  report.status = "success"
    => \A p \in DOMAIN report.progress_analysis.phase_details :
         LET d == report.progress_analysis.phase_details[p] IN
         report.progress_analysis.learning_velocity
           = LearningVelocity(d.actual_completed_days, d.expected_days_by_now)

\* C23: total_days_behind of the delay detection is the sum, over the phases,
\* of the days_behind_schedule the progress analysis reports for the same
\* roadmap, and risk_level is the bucket of that sum: 0 low, 1 to 3 medium,
\* 4 to 7 high, above 7 critical; which tasks are the completed ones does not
\* matter.
C23_DelaysAreAnalyzerSum ==
  report.status = "success"
    => LET details == report.progress_analysis.phase_details
           behind == SumOver([p \in DOMAIN details |-> details[p].days_behind_schedule],
                             DOMAIN details)
       IN  /\ report.delay_analysis.total_days_behind = behind
           /\ report.delay_analysis.risk_level =
                IF behind = 0 THEN "low"
                ELSE IF behind <= 3 THEN "medium"
                ELSE IF behind <= 7 THEN "high"
                ELSE "critical"

\* The longest run of consecutive missed expected days of a phase: the
\* expected days are the first expected_days_by_now tasks, the missed ones
\* those not completed.
LongestMissedRun(d) ==
  SetMax({0} \cup
         {r[2] - r[1] + 1 :
            r \in {q \in (1..d.expected_days_by_now) \X (1..d.expected_days_by_now) :
                     q[1] <= q[2] /\ (q[1]..q[2]) \subseteq d.missed_days}})

\* C24: longest_streak_missed of the delay detection is the greatest, over the
\* phases, length of a run of consecutive expected days whose task is not
\* completed; it is above 0 whenever an expected day of a phase is missed.
C24_LongestStreakReported ==
  report.status = "success"
    => LET details == report.progress_analysis.phase_details IN
       /\ \A p \in DOMAIN details :
            report.delay_analysis.longest_streak_missed >= LongestMissedRun(details[p])
       /\ \E p \in DOMAIN details :
            report.delay_analysis.longest_streak_missed = LongestMissedRun(details[p])
       /\ (\E p \in DOMAIN details : details[p].missed_days # {})
            => report.delay_analysis.longest_streak_missed > 0

\* ------------------------------------- the adaptive analysis, a long plan
\* A roadmap of one phase with a learning plan of LongPlanTasks tasks, any of
\* them completed, generated any number of days before Today up to one day
\* past its last task, or the day after Today; the adaptive analysis runs on
\* it.  The learner has taken no assessment yet, or has passed the first
\* day of every phase.
InitLongPlan ==
  /\ \E tasks \in [1..LongPlanTasks -> BOOLEAN],
        generated_at \in (Today - LongPlanTasks - 1)..(Today + 1) :
       plan = [phases |-> [p \in {0} |->
                             [NewPhase(generated_at) EXCEPT !.tasks = tasks]],
               adaptive_settings |-> NoSettings]
  /\ report = NoReport
  /\ schedule = NoSchedule
  /\ analysis = NoAnalysis
  /\ \E k \in {-1, 1} : /\ roadmap = PassedThrough(k).roadmap
                        /\ progress = PassedThrough(k).progress
  /\ result = NoResult
  /\ procs = [i \in Procs |-> IdleProc]
  /\ start = [roadmap |-> EmptyRoadmap, progress |-> NoProgress]

NextLongPlan == \E save_fails \in BOOLEAN : AnalyzeAndAdapt(save_fails)

SpecLongPlan == InitLongPlan /\ [][NextLongPlan]_vars

\* C25: for every learning velocity and risk level of a run, extend_timeline
\* and simplify_content are emitted exactly when the velocity is slow or the
\* risk is high or critical, and increase_challenge is emitted whenever the
\* velocity is fast, also at high or critical risk.
C25_AdaptationsByVelocityAndRisk ==
  report.status = "success"
    => LET velocity == report.progress_analysis.learning_velocity
           risk == report.delay_analysis.risk_level
           emitted == report.adaptations_applied
           slow_or_at_risk == velocity = "slow" \/ risk \in {"high", "critical"}
       IN  /\ "extend_timeline" \in emitted.schedule_adjustments <=> slow_or_at_risk
           /\ "simplify_content" \in emitted.content_modifications <=> slow_or_at_risk
           /\ velocity = "fast" => "increase_challenge" \in emitted.difficulty_changes

\* The roadmap document with the adaptation_flags of its phases and its
\* adaptive_settings taken from another document.
WithAdaptiveFieldsOf(doc, other) ==
  [doc EXCEPT
     !.adaptive_settings = other.adaptive_settings,
     !.phases = [p \in DOMAIN doc.phases |->
                   [doc.phases[p] EXCEPT
                      !.adaptation_flags = other.phases[p].adaptation_flags]]]

\* C26: applying adaptations never edits task content. The adapted roadmap of
\* a run, returned and stored, has the phases, tasks, completion flags and
\* embedded assessment records of the roadmap the run was given; at most
\* adaptation_flags and adaptive_settings differ.
C26_ApplyKeepsTaskContent ==
  [][report'.status = "success"
       => /\ DOMAIN report'.updated_roadmap.phases = DOMAIN plan.phases
          /\ WithAdaptiveFieldsOf(report'.updated_roadmap, RoadmapData) = RoadmapData
          /\ DOMAIN plan'.phases = DOMAIN plan.phases
          /\ WithAdaptiveFieldsOf(RoadmapData', RoadmapData) = RoadmapData]_vars

\* A run on a roadmap with completed tasks and a passed assessment has set
\* content_simplified on the stored plan.
C26_Witness ==
  /\ report.status = "success"
  /\ plan.adaptive_settings.adaptation_count > 0
  /\ roadmap # EmptyRoadmap
  /\ \E p \in DOMAIN plan.phases :
       /\ \E i \in DOMAIN plan.phases[p].tasks : plan.phases[p].tasks[i]
       /\ plan.phases[p].adaptation_flags.content_simplified

\* C27: the curriculum document is the source of truth for completion. After
\* any sequence of operations, a check_unlock_status returns, and leaves
\* stored, as completed_assessments exactly the days of the phase whose
\* embedded assessment has completed = TRUE and score >= 70; this also when
\* the record had drifted within the size bound.
C27_CompletedFromDocument ==
  (result.op = "check" /\ result.status = "ok")
    => /\ ToSet(result.completed_assessments) = PassedDays(roadmap, result.phase)
       /\ ToSet(progress[result.phase].completed_assessments)
            = PassedDays(roadmap, result.phase)

\* C28: unlocking is monotonic. A day in the stored unlocked_days of a phase
\* is still there after every later submit_assessment, check_unlock_status
\* and reset_unlock_status.
C28_UnlockedDaysStay ==
  [][\A p \in Phases :
       ToSet(progress[p].unlocked_days) \subseteq ToSet(progress'[p].unlocked_days)]_vars

\* C29: after any sequence of runs of the adaptive analysis the
\* adaptation_flags of a phase reflect the latest run only: content_simplified
\* and difficulty_increased are never both true on a phase, and after a saved
\* run a flag is true only when that run emitted its adaptation.
C29_FlagsOfLatestRun ==
  /\ \A p \in DOMAIN plan.phases :
       ~(/\ plan.phases[p].adaptation_flags.content_simplified
         /\ plan.phases[p].adaptation_flags.difficulty_increased)
  /\ (report.status = "success" /\ report.updated_roadmap.phases = plan.phases)
       => \A p \in DOMAIN plan.phases :
            LET flags == plan.phases[p].adaptation_flags
                emitted == report.adaptations_applied
            IN  /\ flags.content_simplified
                     <=> "simplify_content" \in emitted.content_modifications
                /\ flags.difficulty_increased
                     <=> "increase_challenge" \in emitted.difficulty_changes

\* --------------------------- the adaptive analysis among other requests
\* A roadmap of one phase with a generated learning plan, no task completed,
\* no assessment taken. Each of the two requests in flight is a submission,
\* a task completion or an adaptive analysis; every one of them reads
\* users.road_map, works on what it read and writes the whole document back.
InitAdaptConcurrent ==
  /\ \E generated_at \in GeneratedAt :
       plan = [phases |-> [p \in {0} |-> NewPhase(generated_at)],
               adaptive_settings |-> NoSettings]
  /\ report = NoReport
  /\ schedule = NoSchedule
  /\ analysis = NoAnalysis
  /\ roadmap = EmptyRoadmap
  /\ progress = NoProgress
  /\ result = NoResult
  /\ procs = [i \in Procs |-> IdleProc]
  /\ start = [roadmap |-> EmptyRoadmap, progress |-> NoProgress]

\* analyze_and_adapt_roadmap: get_user_by_id and json.loads of road_map.
AdaptRead(i) ==
  /\ procs[i].pc = "idle"
  /\ plan.phases # NoPlan.phases
  /\ procs' = [procs EXCEPT ![i] =
       [@ EXCEPT !.pc = "adapt_save", !.op = "adapt",
                 !.roadmap = roadmap, !.plan = plan]]
  /\ UNCHANGED <<roadmap, progress, result, start, schedule, analysis, plan, report>>

\* analyze_progress_and_adapt on the document read earlier, up to
\* _save_adapted_roadmap: the adapted copy replaces users.road_map.
AdaptSave(i, save_fails) ==
  LET pr == procs[i]
      roadmap_data == [assessments |-> pr.roadmap, phases |-> pr.plan.phases,
                       adaptive_settings |-> pr.plan.adaptive_settings]
  IN  /\ pr.pc = "adapt_save"
      /\ report' = AnalyzeProgressAndAdapt(roadmap_data, Today)
      /\ IF save_fails
         THEN UNCHANGED <<roadmap, plan>>
         ELSE /\ roadmap' = report'.updated_roadmap.assessments
              /\ plan' = [phases |-> report'.updated_roadmap.phases,
                          adaptive_settings |->
                            report'.updated_roadmap.adaptive_settings]
      /\ procs' = [procs EXCEPT ![i] = Finish(pr, "none", 0)]
      /\ UNCHANGED <<progress, result, start, schedule, analysis>>

\* complete_task: get_user_by_id and json.loads of road_map.
CompleteRead(i, phase_id, task, completed) ==
  /\ procs[i].pc = "idle"
  /\ phase_id \in DOMAIN plan.phases
  /\ task \in DOMAIN plan.phases[phase_id].tasks
  /\ procs' = [procs EXCEPT ![i] =
       [@ EXCEPT !.pc = "complete_write", !.op = "complete", !.phase = phase_id,
                 !.task = task, !.completed = completed,
                 !.roadmap = roadmap, !.plan = plan]]
  /\ UNCHANGED <<roadmap, progress, result, start, schedule, analysis, plan, report>>

\* complete_task, users.update_one: the document read earlier is written back
\* whole, with the completed flag of the task set as posted.
CompleteWrite(i) ==
  LET pr == procs[i] IN
  /\ pr.pc = "complete_write"
  /\ roadmap' = pr.roadmap
  /\ plan' = [pr.plan EXCEPT !.phases[pr.phase].tasks[pr.task] = pr.completed]
  /\ report' = NoReport
  /\ procs' = [procs EXCEPT ![i] = Finish(pr, "none", 0)]
  /\ UNCHANGED <<progress, result, start, schedule, analysis>>

NextAdaptConcurrent ==
  \/ \E i \in Procs, p \in SeqPhases, day \in SeqDays, sub \in Submissions :
       SubmitRead(i, p, day, sub)
  \/ \E i \in Procs : SubmitWriteRoadmap(i)
  \/ \E i \in Procs : SubmitAddCompleted(i)
  \/ \E i \in Procs : UnlockRead(i)
  \/ \E i \in Procs : UnlockWriteStep(i)
  \/ \E i \in Procs : AdaptRead(i)
  \/ \E i \in Procs, save_fails \in BOOLEAN : AdaptSave(i, save_fails)
  \/ \E i \in Procs, task \in 1..PlanTasks, completed \in BOOLEAN :
       CompleteRead(i, 0, task, completed)
  \/ \E i \in Procs : CompleteWrite(i)

SpecAdaptConcurrent == InitAdaptConcurrent /\ [][NextAdaptConcurrent]_vars

\* C30: an adaptive analysis that runs concurrently with a submission or a
\* task completion loses none of its data. Once both requests have returned,
\* the curriculum document holds the assessment record the submission wrote,
\* with its completion flag, and the completed flag the task completion set.
C30_AnalysisKeepsSubmission ==
  AllDone
    => \A i \in Procs, j \in Procs :
         procs[j].op = "adapt"
           => /\ procs[i].op = "submit"
                   => LET a == roadmap[procs[i].phase][procs[i].day] IN
                      /\ a.present
                      /\ a.score = procs[i].score
                      /\ a.completed = Passed(procs[i].score)
              /\ procs[i].op = "complete"
                   => plan.phases[procs[i].phase].tasks[procs[i].task]
                        = procs[i].completed

====
